---------------------------- MODULE Spec2Model ----------------------------
(***************************************************************************)
(* Model of whisper_json_to_pdf.py: the transcript bucketing pipeline      *)
(* (main -> load_whisper_json -> build_blocks -> make_pdf), the text       *)
(* normaliser light_cleanup and the timestamp formatter fmt_time.          *)
(*                                                                         *)
(* Strings are sequences of one-character strings, so that every regular   *)
(* expression of the source is modelled by what it does to the characters. *)
(* Times of the pipeline are whole seconds; fmt_time takes tenths of a     *)
(* second so that the rounding of fractional input is part of the model.   *)
(***************************************************************************)
EXTENDS Integers, Sequences, FiniteSets, TLC

VARIABLES
    pc,        \* position of main: start, loaded, bins, built, pdf, done, or an exit
    json,      \* the parsed input file: [hasSegments, segments]
    interval,  \* args.interval
    segments,  \* the list load_whisper_json returned
    bin0,      \* build_blocks: anchor of the bins
    nbins,     \* build_blocks: number of conceptual bins
    i,         \* build_blocks: index of the next bin of the for loop
    seg_idx,   \* build_blocks: the forward cursor
    blocks,    \* build_blocks: the blocks emitted so far
    binlog,    \* history: one record per bin processed (cursor, scan, raw text)
    rows,      \* make_pdf: the timestamp/text rows handed to the table
    text,      \* normaliser run: the input string
    out,       \* normaliser run: light_cleanup(text)
    out2,      \* normaliser run: light_cleanup(out)
    tenths,    \* formatter run: the input, in tenths of a second
    ts,        \* formatter run: fmt_time's result
    phase      \* position of the normaliser / formatter run

vars == <<pc, json, interval, segments, bin0, nbins, i, seg_idx, blocks,
          binlog, rows, text, out, out2, tenths, ts, phase>>

pipelineVars == <<pc, json, interval, segments, bin0, nbins, i, seg_idx,
                  blocks, binlog, rows>>

cleanupVars == <<text, out, out2>>

fmtVars == <<tenths, ts>>

(***************************************************************************)
(* Characters                                                              *)
(***************************************************************************)

UpperLetters ==
    <<"A","B","C","D","E","F","G","H","I","J","K","L","M",
      "N","O","P","Q","R","S","T","U","V","W","X","Y","Z">>

LowerLetters ==
    <<"a","b","c","d","e","f","g","h","i","j","k","l","m",
      "n","o","p","q","r","s","t","u","v","w","x","y","z">>

Digits == <<"0","1","2","3","4","5","6","7","8","9">>

Range(f) == { f[x] : x \in DOMAIN f }

\* [A-Za-z]
IsLetter(c) == c \in Range(UpperLetters) \cup Range(LowerLetters)

\* \w
IsWordChar(c) == IsLetter(c) \/ c \in Range(Digits) \/ c = "_"

\* \s
IsSpace(c) == c \in {" ", "\t", "\n"}

\* [,.;:!?]
IsPunct(c) == c \in {",", ".", ";", ":", "!", "?"}

\* [ ,;:]
IsDelim(c) == c \in {" ", ",", ";", ":"}

\* case folding of (?i)
Lower(c) ==
    IF c \in Range(UpperLetters)
    THEN LowerLetters[CHOOSE k \in DOMAIN UpperLetters : UpperLetters[k] = c]
    ELSE c

\* the strings: sequences of characters
Str == Seq(STRING)

\* s[a..b], empty when a > b
Slice(s, a, b) == IF a > b THEN <<>> ELSE SubSeq(s, a, b)

\* str.strip()
RECURSIVE LStrip(_)
LStrip(s) == IF s # <<>> /\ IsSpace(Head(s)) THEN LStrip(Tail(s)) ELSE s

RECURSIVE RStrip(_)
RStrip(s) ==
    IF s # <<>> /\ IsSpace(s[Len(s)]) THEN RStrip(SubSeq(s, 1, Len(s) - 1)) ELSE s

Strip(s) == RStrip(LStrip(s))

\* end (exclusive) of the maximal run of characters satisfying P that starts at p
RECURSIVE SpaceRunEnd(_, _)
SpaceRunEnd(s, p) ==
    IF p <= Len(s) /\ IsSpace(s[p]) THEN SpaceRunEnd(s, p + 1) ELSE p

RECURSIVE WordRunEnd(_, _)
WordRunEnd(s, p) ==
    IF p <= Len(s) /\ IsWordChar(s[p]) THEN WordRunEnd(s, p + 1) ELSE p

\* re.sub(r"\s+", " ", t)
CollapseSpacesFrom[s \in Str, p \in Nat] ==
    IF p > Len(s) THEN <<>>
    ELSE IF IsSpace(s[p])
         THEN <<" ">> \o CollapseSpacesFrom[s, SpaceRunEnd(s, p)]
         ELSE <<s[p]>> \o CollapseSpacesFrom[s, p + 1]

CollapseSpaces(s) == CollapseSpacesFrom[s, 1]

(***************************************************************************)
(* Filler removal                                                          *)
(***************************************************************************)

\* whether the literal lit (lower case) is at s[p..], ignoring case
LitAt(s, p, lit) ==
    /\ p + Len(lit) - 1 <= Len(s)
    /\ \A k \in 1..Len(lit) : Lower(s[p + k - 1]) = lit[k]

\* end (exclusive) of the maximal run of the letter c, ignoring case
RECURSIVE LetterRunEnd(_, _, _)
LetterRunEnd(s, p, c) ==
    IF p <= Len(s) /\ Lower(s[p]) = c THEN LetterRunEnd(s, p + 1, c) ELSE p

\* \b at position p (between s[p-1] and s[p])
WordBoundary(s, p) ==
    LET before == p > 1 /\ p - 1 <= Len(s) /\ IsWordChar(s[p - 1])
        after  == p >= 1 /\ p <= Len(s) /\ IsWordChar(s[p])
    IN  before # after

\* the elongated fillers  \bX Y+\b  of FILLER_WORDS: um+, uh+, er+, ah+
Elongated == << <<"u","m">>, <<"u","h">>, <<"e","r">>, <<"a","h">> >>

\* the fixed fillers of FILLER_WORDS, in the order of the alternation
FixedFillers ==
    << <<"l","i","k","e">>,
       <<"y","o","u"," ","k","n","o","w">>,
       <<"k","i","n","d"," ","o","f">>,
       <<"s","o","r","t"," ","o","f">>,
       <<"i"," ","m","e","a","n">> >>

\* FILLER_WORDS: the end (exclusive) of the filler that starts at p and is
\* followed by a character that ends the match ([ ,;:] or the end of the
\* string), or 0 when there is none.  The alternatives are tried in order and
\* the repeated letter greedily, giving back letters while the rest fails.
FillerEndOk(s, e) ==
    /\ WordBoundary(s, e)
    /\ (e > Len(s) \/ IsDelim(s[e]))

ElongatedEnd(s, p, f) ==
    IF LitAt(s, p, f)
    THEN LET top == LetterRunEnd(s, p + 1, f[2])
             ok  == { e \in (p + 2)..top : FillerEndOk(s, e) }
         IN  IF ok = {} THEN 0 ELSE CHOOSE e \in ok : \A x \in ok : x <= e
    ELSE 0

FixedEnd(s, p, f) ==
    IF LitAt(s, p, f) /\ FillerEndOk(s, p + Len(f)) THEN p + Len(f) ELSE 0

FILLER_WORDS(s, p) ==
    IF ~WordBoundary(s, p) THEN 0
    ELSE LET ends == [k \in 1..4 |-> ElongatedEnd(s, p, Elongated[k])]
                     \o [k \in 1..5 |-> FixedEnd(s, p, FixedFillers[k])]
             hits == { k \in DOMAIN ends : ends[k] # 0 }
         IN  IF hits = {} THEN 0
             ELSE ends[CHOOSE k \in hits : \A x \in hits : k <= x]

\* (FILLER)([ ,;:]|$) has matched up to e (exclusive) after group 1 = g1:
\* <<matched, replacement \1\3, position after the match>>
FillerResult(s, g1, e) ==
    IF e > Len(s) THEN <<TRUE, g1, e>> ELSE <<TRUE, g1 \o <<s[e]>>, e + 1>>

\* a variant that deletes a fixed filler wherever its letters occur
FillerMatchAnywhere(s, p) ==
    IF \E k \in DOMAIN FixedFillers : LitAt(s, p, FixedFillers[k])
    THEN <<TRUE, <<>>,
           p + Len(FixedFillers[CHOOSE k \in DOMAIN FixedFillers :
                                    LitAt(s, p, FixedFillers[k])])>>
    ELSE <<FALSE, <<>>, p>>

\* One attempt of (^|[ ,;:])(FILLER)([ ,;:]|$) at position p: first with ^
\* as group 1 (only at the start of the string), then with s[p] as group 1.
FillerMatchAt(s, p) ==
    IF p = 1 /\ FILLER_WORDS(s, 1) # 0
    THEN FillerResult(s, <<>>, FILLER_WORDS(s, 1))
    ELSE IF IsDelim(s[p]) /\ FILLER_WORDS(s, p + 1) # 0
    THEN FillerResult(s, <<s[p]>>, FILLER_WORDS(s, p + 1))
    ELSE <<FALSE, <<>>, p>>

\* re.sub(r"(?i)(^|[ ,;:])(FILLER)([ ,;:]|$)", r"\1\3", t), from position p on
RemoveFillersFrom[s \in Str, p \in Nat] ==
    IF p > Len(s) THEN <<>>
    ELSE CHOOSE r \in
            { IF m[1] THEN m[2] \o RemoveFillersFrom[s, m[3]]
              ELSE <<s[p]>> \o RemoveFillersFrom[s, p + 1]
              : m \in {FillerMatchAt(s, p)} } : TRUE

RemoveFillers(s) == RemoveFillersFrom[s, 1]

(***************************************************************************)
(* De-stutter and punctuation                                              *)
(***************************************************************************)

\* One attempt of (?i)\b(\w+)\s+\1\b at position p: the position after the
\* match, or 0.  \w+ is greedy and a shorter word is followed by a word
\* character, where \s+ fails, so group 1 is the whole word starting at p.
StutterEnd(s, p) ==
    IF ~(WordBoundary(s, p) /\ IsWordChar(s[p])) THEN 0
    ELSE LET w  == WordRunEnd(s, p)
             n  == w - p
             r  == SpaceRunEnd(s, w)
         IN  IF /\ r > w
                /\ r + n - 1 <= Len(s)
                /\ \A k \in 0..(n - 1) : Lower(s[r + k]) = Lower(s[p + k])
                /\ WordBoundary(s, r + n)
             THEN r + n
             ELSE 0

\* re.sub(r"(?i)\b(\w+)\s+\1\b", r"\1", t)
DeStutterFrom[s \in Str, p \in Nat] ==
    IF p > Len(s) THEN <<>>
    ELSE LET e == StutterEnd(s, p)
         IN  IF e # 0
             THEN Slice(s, p, WordRunEnd(s, p) - 1) \o DeStutterFrom[s, e]
             ELSE <<s[p]>> \o DeStutterFrom[s, p + 1]

\* a variant that keeps repeated words
DeStutterOff(s) == s

DeStutter(s) == DeStutterFrom[s, 1]

\* re.sub(r"\s+([,.;:!?])", r"\1", t)
SpaceBeforePunctFrom[s \in Str, p \in Nat] ==
    IF p > Len(s) THEN <<>>
    ELSE LET q == SpaceRunEnd(s, p)
         IN  IF q > p /\ q <= Len(s) /\ IsPunct(s[q])
             THEN <<s[q]>> \o SpaceBeforePunctFrom[s, q + 1]
             ELSE <<s[p]>> \o SpaceBeforePunctFrom[s, p + 1]

SpaceBeforePunct(s) == SpaceBeforePunctFrom[s, 1]

\* re.sub(r"([,.;:!?])([A-Za-z])", r"\1 \2", t)
SpaceAfterPunctFrom[s \in Str, p \in Nat] ==
    IF p > Len(s) THEN <<>>
    ELSE IF IsPunct(s[p]) /\ p < Len(s) /\ IsLetter(s[p + 1])
         THEN <<s[p], " ", s[p + 1]>> \o SpaceAfterPunctFrom[s, p + 2]
         ELSE <<s[p]>> \o SpaceAfterPunctFrom[s, p + 1]

SpaceAfterPunct(s) == SpaceAfterPunctFrom[s, 1]

\* end (exclusive) of the run of the character c that starts at p
RECURSIVE SameRunEnd(_, _, _)
SameRunEnd(s, p, c) ==
    IF p <= Len(s) /\ s[p] = c THEN SameRunEnd(s, p + 1, c) ELSE p

\* re.sub(r"([,.;:!?])\1+", r"\1", t)
DoublePunctFrom[s \in Str, p \in Nat] ==
    IF p > Len(s) THEN <<>>
    ELSE <<s[p]>> \o DoublePunctFrom[s, IF IsPunct(s[p])
                                        THEN SameRunEnd(s, p, s[p])
                                        ELSE p + 1]

DoublePunct(s) == DoublePunctFrom[s, 1]

\* re.search(r"[.!?]\s*$", t): the last character that is not white space
\* is one of . ! ?
EndsSentence(s) ==
    \E p \in 1..Len(s) :
        s[p] \in {".", "!", "?"} /\ SpaceRunEnd(s, p + 1) > Len(s)

\* the length above which a chunk gets a terminal period
PeriodThreshold == 40

\* lines 102-105: the terminal period
TerminalPeriod(s) ==
    IF s # <<>> /\ ~EndsSentence(s) /\ Len(s) > PeriodThreshold
    THEN s \o <<".">>
    ELSE s

light_cleanup(x) ==
    TerminalPeriod(                                   \* lines 102-105
      DoublePunct(                                    \* line 99
        SpaceAfterPunct(                              \* line 96
          SpaceBeforePunct(                           \* line 93
            DeStutter(                                \* line 90
              Strip(CollapseSpaces(                   \* line 87
                RemoveFillers(                        \* line 86
                  CollapseSpaces(                     \* line 82
                    Strip(x))))))))))                 \* line 79

(***************************************************************************)
(* fmt_time                                                                *)
(***************************************************************************)

\* decimal digits of n >= 0
RECURSIVE Dec(_)
Dec(n) == IF n < 10 THEN <<Digits[n + 1]>> ELSE Dec(n \div 10) \o <<Digits[(n % 10) + 1]>>

\* the format spec 02d: at least two characters, padded with zeros
Pad2(n) ==
    IF n < 0 THEN <<"-">> \o Dec(-n)
    ELSE IF n < 10 THEN <<"0">> \o Dec(n)
    ELSE Dec(n)

\* int(x): truncation toward zero of a / b, b > 0
TruncDiv(a, b) == IF a >= 0 THEN a \div b ELSE -((-a) \div b)

\* int(seconds + 0.5), seconds given in tenths
RoundedSeconds(t) == TruncDiv(t + 5, 10)

\* int(seconds): the rounding left out
TruncatedSeconds(t) == TruncDiv(t, 10)

\* fmt_time with the value s already an integer
FmtFields(s) ==
    LET h   == s \div 3600
        m   == (s % 3600) \div 60
        sec == s % 60
    IN  IF h > 0
        THEN Pad2(h) \o <<":">> \o Pad2(m) \o <<":">> \o Pad2(sec)
        ELSE Pad2(m) \o <<":">> \o Pad2(sec)

fmt_time_truncating(t) == FmtFields(TruncatedSeconds(t))

fmt_time(t) == FmtFields(RoundedSeconds(t))

(***************************************************************************)
(* load_whisper_json and build_blocks                                      *)
(***************************************************************************)

\* math.floor(a / b) for b # 0
FloorDiv(a, b) == IF b > 0 THEN a \div b ELSE (-a) \div (-b)

\* math.ceil(a / b) for b # 0
CeilDiv(a, b) == -FloorDiv(-a, b)

\* max(s.end for s in segments)
MaxEnd(segs) ==
    CHOOSE e \in { segs[k].end : k \in DOMAIN segs } :
        \A k \in DOMAIN segs : segs[k].end <= e

\* a variant that does not align the anchor
Bin0Unaligned(t_start, k) == t_start

\* line 158: bin0
Bin0(t_start, k) == FloorDiv(t_start, k) * k

\* line 159: nbins
NBins(t_end, b0, k) == CeilDiv(t_end - b0, k)

\* a variant of the skip loop that tests the start of the segment
RECURSIVE SkipCursorByStart(_, _, _)
SkipCursorByStart(segs, idx, b_start) ==
    IF idx < Len(segs) /\ segs[idx + 1].start <= b_start
    THEN SkipCursorByStart(segs, idx + 1, b_start)
    ELSE idx

\* lines 170-171: the cursor after the skip loop (idx counts from 0)
RECURSIVE SkipCursor(_, _, _)
SkipCursor(segs, idx, b_start) ==
    IF idx < Len(segs) /\ segs[idx + 1].end <= b_start
    THEN SkipCursor(segs, idx + 1, b_start)
    ELSE idx

\* lines 173-177: the value of j when the collecting loop stops
RECURSIVE ScanEnd(_, _, _)
ScanEnd(segs, j, b_end) ==
    IF j < Len(segs) /\ segs[j + 1].start < b_end
    THEN ScanEnd(segs, j + 1, b_end)
    ELSE j

\* lines 175-176: the texts appended for the segments a..b-1
RECURSIVE CollectTexts(_, _, _)
CollectTexts(segs, a, b) ==
    IF a >= b THEN <<>>
    ELSE (IF segs[a + 1].text # <<>> THEN <<segs[a + 1].text>> ELSE <<>>)
         \o CollectTexts(segs, a + 1, b)

\* " ".join(texts)
RECURSIVE Join(_)
Join(texts) ==
    IF texts = <<>> THEN <<>>
    ELSE IF Len(texts) = 1 THEN texts[1]
    ELSE texts[1] \o <<" ">> \o Join(Tail(texts))

\* lines 137-141: one Segment of the list
LoadSegment(s) == [start |-> s.start, end |-> s.end, text |-> Strip(s.text)]

(***************************************************************************)
(* Inputs                                                                  *)
(***************************************************************************)

MaxSegs == 2

MaxTime == 2

MaxInterval == 2

\* --interval default, also the interval of the lecture scenario
DefaultInterval == 30

\* the "text" fields of the input, with the leading blank Whisper writes:
\* white space only, a filler, a word
Texts == { <<" ">>, <<" ","u","m">>, <<" ","h","i">> }

RawSegments == [start : 0..MaxTime, end : 0..MaxTime, text : Texts]

\* the segment lists of the input are ordered by start, as Whisper writes
\* them; the end of a segment is not constrained
SortedByStart(segs) ==
    \A a, b \in DOMAIN segs : a < b => segs[a].start <= segs[b].start

SegmentLists ==
    { l \in UNION { [1..n -> RawSegments] : n \in 0..MaxSegs } : SortedByStart(l) }

Intervals == (-1)..MaxInterval

ScenarioSegments ==
    << [start |-> 0, end |-> 5,
        text |-> <<"u","m"," ","s","o"," ","t","o","d","a","y">>],
       [start |-> 5, end |-> 33,
        text |-> <<"w","e"," ","w","e"," ","t","a","l","k"," ",
                   "a","b","o","u","t"," ","c","a","c","h","e","s">>] >>

IdlePipeline ==
    /\ pc = "idle"
    /\ json = [hasSegments |-> FALSE, segments |-> <<>>]
    /\ interval = DefaultInterval
    /\ segments = <<>>
    /\ bin0 = 0
    /\ nbins = 0
    /\ i = 0
    /\ seg_idx = 0
    /\ blocks = <<>>
    /\ binlog = <<>>
    /\ rows = <<>>

IdleCleanup == text = <<>> /\ out = <<>> /\ out2 = <<>>

IdleFmt == tenths = 0 /\ ts = <<>>

(***************************************************************************)
(* The pipeline: main                                                      *)
(***************************************************************************)

Init ==
    /\ pc = "start"
    /\ \/ /\ json \in [hasSegments : {TRUE}, segments : SegmentLists]
          /\ interval \in Intervals
       \/ /\ json = [hasSegments |-> FALSE, segments |-> <<>>]
          /\ interval \in Intervals
       \/ /\ json = [hasSegments |-> TRUE, segments |-> ScenarioSegments]
          /\ interval = DefaultInterval
    /\ segments = <<>>
    /\ bin0 = 0
    /\ nbins = 0
    /\ i = 0
    /\ seg_idx = 0
    /\ blocks = <<>>
    /\ binlog = <<>>
    /\ rows = <<>>
    /\ IdleCleanup
    /\ IdleFmt
    /\ phase = "idle"

\* main line 292: load_whisper_json
Load ==
    /\ pc = "start"
    /\ IF json.hasSegments
       THEN /\ segments' = [k \in DOMAIN json.segments |-> LoadSegment(json.segments[k])]
            /\ pc' = "loaded"
       ELSE /\ pc' = "ValueError"
            /\ UNCHANGED segments
    /\ UNCHANGED <<json, interval, bin0, nbins, i, seg_idx, blocks, binlog, rows,
                   cleanupVars, fmtVars, phase>>

\* build_blocks lines 150-162: up to the for loop
BuildBlocksEnter ==
    /\ pc = "loaded"
    /\ IF segments = <<>>
       THEN /\ pc' = "built"
            /\ UNCHANGED <<bin0, nbins>>
       ELSE IF interval = 0
       THEN /\ pc' = "ZeroDivisionError"
            /\ UNCHANGED <<bin0, nbins>>
       ELSE /\ bin0' = Bin0(segments[1].start, interval)
            /\ nbins' = NBins(MaxEnd(segments), bin0', interval)
            /\ pc' = "bins"
    /\ i' = 0
    /\ seg_idx' = 0
    /\ blocks' = <<>>
    /\ UNCHANGED <<json, interval, segments, binlog, rows, cleanupVars, fmtVars, phase>>

\* build_blocks lines 164-183: one iteration of the for loop
BuildBlocksBin ==
    /\ pc = "bins"
    /\ i < nbins
    /\ LET b_start == bin0 + i * interval
           b_end   == b_start + interval
           cursor  == SkipCursor(segments, seg_idx, b_start)
           j       == ScanEnd(segments, cursor, b_end)
           texts   == CollectTexts(segments, cursor, j)
           raw     == Join(texts)
           cleaned == light_cleanup(raw)
       IN  /\ seg_idx' = cursor
           /\ blocks' = IF texts # <<>> /\ cleaned # <<>>
                        THEN Append(blocks, [start |-> b_start, end |-> b_end,
                                             text |-> cleaned])
                        ELSE blocks
           /\ binlog' = Append(binlog, [b_start |-> b_start, b_end |-> b_end,
                                        entered |-> seg_idx, cursor |-> cursor,
                                        j |-> j, raw |-> raw,
                                        emitted |-> blocks' # blocks])
    /\ i' = i + 1
    /\ UNCHANGED <<pc, json, interval, segments, bin0, nbins, rows,
                   cleanupVars, fmtVars, phase>>

\* build_blocks line 185: return blocks
BuildBlocksReturn ==
    /\ pc = "bins"
    /\ i >= nbins
    /\ pc' = "built"
    /\ UNCHANGED <<json, interval, segments, bin0, nbins, i, seg_idx, blocks,
                   binlog, rows, cleanupVars, fmtVars, phase>>

\* a variant of the check that renders whatever it is given
CheckBlocksAlwaysRender == "pdf"

\* main lines 295-296: where main goes with the blocks it got
CheckBlocks == IF blocks = <<>> THEN "SystemExit" ELSE "pdf"

\* main lines 293-298, after build_blocks returned
MainCheck ==
    /\ pc = "built"
    /\ pc' = CheckBlocks
    /\ UNCHANGED <<json, interval, segments, bin0, nbins, i, seg_idx, blocks,
                   binlog, rows, cleanupVars, fmtVars, phase>>

\* make_pdf lines 253-259 (the rows of the table), and main line 299
MakePdf ==
    /\ pc = "pdf"
    /\ rows' = [k \in DOMAIN blocks |->
                   [ts |-> fmt_time(10 * blocks[k].start), text |-> blocks[k].text]]
    /\ pc' = "done"
    /\ UNCHANGED <<json, interval, segments, bin0, nbins, i, seg_idx, blocks,
                   binlog, cleanupVars, fmtVars, phase>>

Next ==
    \/ Load
    \/ BuildBlocksEnter
    \/ BuildBlocksBin
    \/ BuildBlocksReturn
    \/ MainCheck
    \/ MakePdf

Spec == Init /\ [][Next]_vars

(***************************************************************************)
(* The normaliser on its own: light_cleanup applied once and then again    *)
(***************************************************************************)

MaxTokens == 3

Vocabulary ==
    { <<" ">>, <<",">>, <<".">>, <<"u","m">>, <<"l","i","k","e">>,
      <<"w","e">>, <<"I">> }

RECURSIVE Concat(_)
Concat(parts) == IF parts = <<>> THEN <<>> ELSE Head(parts) \o Concat(Tail(parts))

TokenStrings ==
    { Concat(l) : l \in UNION { [1..n -> Vocabulary] : n \in 0..MaxTokens } }

UnlikeThis == <<"u","n","l","i","k","e"," ","t","h","i","s">>

ILikePizza == <<"I"," ","l","i","k","e"," ","p","i","z","z","a">>

IPizza == <<"I"," ","p","i","z","z","a">>

WeWeWe == <<"w","e"," ","w","e"," ","w","e">>

ScenarioRaw == ScenarioSegments[1].text \o <<" ">> \o ScenarioSegments[2].text

\* one word of n letters
Word(n) == [k \in 1..n |-> "x"]

Fixtures ==
    { UnlikeThis, ILikePizza, WeWeWe, ScenarioRaw,
      Word(PeriodThreshold), Word(PeriodThreshold + 1),
      Word(PeriodThreshold - 2) \o <<" ","u","m">> }

InitCleanup ==
    /\ IdlePipeline
    /\ IdleFmt
    /\ text \in TokenStrings \cup Fixtures
    /\ out = <<>>
    /\ out2 = <<>>
    /\ phase = "input"

Cleanup ==
    /\ phase = "input"
    /\ out' = light_cleanup(text)
    /\ phase' = "cleaned"
    /\ UNCHANGED <<pipelineVars, fmtVars, text, out2>>

CleanupAgain ==
    /\ phase = "cleaned"
    /\ out2' = light_cleanup(out)
    /\ phase' = "recleaned"
    /\ UNCHANGED <<pipelineVars, fmtVars, text, out>>

NextCleanup == Cleanup \/ CleanupAgain

SpecCleanup == InitCleanup /\ [][NextCleanup]_vars

(***************************************************************************)
(* The formatter on its own                                                *)
(***************************************************************************)

MaxTenths == 37000

InitFmt ==
    /\ IdlePipeline
    /\ IdleCleanup
    /\ tenths \in 0..MaxTenths
    /\ ts = <<>>
    /\ phase = "input"

Format ==
    /\ phase = "input"
    /\ ts' = fmt_time(tenths)
    /\ phase' = "formatted"
    /\ UNCHANGED <<pipelineVars, cleanupVars, tenths>>

NextFmt == Format

SpecFmt == InitFmt /\ [][NextFmt]_vars

(***************************************************************************)
(* Properties of build_blocks                                              *)
(***************************************************************************)

\* the segments (numbered from 1) the collecting loop of a bin went over
Scanned(r) == (r.cursor + 1)..r.j

\* the segments whose text was appended to the texts of a bin
Appended(r) == { k \in Scanned(r) : segments[k].text # <<>> }

Overlaps(seg, r) == seg.start < r.b_end /\ seg.end > r.b_start

Returned == pc \in {"built", "SystemExit", "pdf", "done"}

\* C1: for segments sorted by start and an interval > 0, a segment's text is
\* in the raw concatenation of a bin only if the segment overlaps the bin:
\* its start is before the end of the bin and its end after the start of it.
\* Stated for segments of positive duration, for which "overlaps" is beyond
\* dispute: the case left is a short segment that follows the start of a
\* longer one still open.
C1_IncludedOnlyIfOverlapping ==
    ( /\ interval > 0
      /\ SortedByStart(segments)
      /\ \A k \in DOMAIN segments : segments[k].end > segments[k].start ) =>
        \A n \in DOMAIN binlog :
            \A k \in Appended(binlog[n]) : Overlaps(segments[k], binlog[n])

\* C2: no text is lost by the bucketing: for a non-empty list of segments
\* sorted by start with end >= start and an interval > 0, every segment with
\* a non-empty text is in the raw concatenation of at least one bin.
C2_NoTextLoss ==
    ( /\ Returned
      /\ interval > 0
      /\ segments # <<>>
      /\ SortedByStart(segments)
      /\ \A k \in DOMAIN segments : segments[k].end >= segments[k].start )
    => \A k \in DOMAIN segments :
           segments[k].text # <<>> =>
               \E n \in DOMAIN binlog : k \in Appended(binlog[n])

\* C3: for a non-empty list and an interval k > 0 the anchor is the multiple
\* of k at or below the first start (floor(start / k) * k); every block starts
\* at anchor + idx * k for a bin index 0 <= idx < ceil((tEnd - anchor) / k) and
\* ends k later; the blocks are in strictly increasing order of start.
C3_BlocksAligned ==
    (interval > 0 /\ segments # <<>> /\ (pc = "bins" \/ Returned)) =>
        /\ bin0 % interval = 0
        /\ bin0 <= segments[1].start
        /\ segments[1].start < bin0 + interval
        /\ \A n \in DOMAIN blocks :
              /\ blocks[n].end = blocks[n].start + interval
              /\ \E idx \in 0..Len(binlog) :
                    /\ blocks[n].start = bin0 + idx * interval
                    /\ idx * interval < MaxEnd(segments) - bin0
        /\ \A n, m \in DOMAIN blocks : n < m => blocks[n].start < blocks[m].start

\* C3, witness: the first start is not a multiple of the interval, the anchor
\* is below it and a block was emitted
C3_Witness ==
    /\ pc = "built"
    /\ interval = 2
    /\ segments # <<>>
    /\ segments[1].start = 1
    /\ bin0 = 0
    /\ blocks # <<>>

IsScenario ==
    /\ json.hasSegments
    /\ json.segments = ScenarioSegments
    /\ interval = DefaultInterval

SoTodayWeTalkAboutCaches ==
    <<"s","o"," ","t","o","d","a","y"," ","w","e"," ","t","a","l","k"," ",
      "a","b","o","u","t"," ","c","a","c","h","e","s">>

WeTalkAboutCaches ==
    <<"w","e"," ","t","a","l","k"," ","a","b","o","u","t"," ",
      "c","a","c","h","e","s">>

\* C6 as stated: the scenario (0-5 "um so today", 5-33 "we we talk about
\* caches", interval 30) has anchor 0 and exactly one bucket, [0,30), with the
\* raw text "um so today we we talk about caches", cleaned with "um" removed
\* and "we we" collapsed.
C6_OneBucket ==
    (IsScenario /\ Returned) =>
        /\ bin0 = 0
        /\ Len(blocks) = 1
        /\ blocks[1] = [start |-> 0, end |-> 30, text |-> SoTodayWeTalkAboutCaches]
        /\ binlog[1].raw = ScenarioRaw

\* C6 as amended: the scenario has anchor 0 and two bins, both emitted:
\* [0,30) with the raw text "um so today we we talk about caches" cleaned to
\* "so today we talk about caches", and [30,60) with the raw text "we we talk
\* about caches" of the second segment, which ends at 33, cleaned to "we talk
\* about caches".
C6_TwoBuckets ==
    (IsScenario /\ Returned) =>
        /\ bin0 = 0
        /\ nbins = 2
        /\ Len(binlog) = 2
        /\ binlog[1].raw = ScenarioRaw
        /\ binlog[2].raw = ScenarioSegments[2].text
        /\ blocks = << [start |-> 0, end |-> 30, text |-> SoTodayWeTalkAboutCaches],
                       [start |-> 30, end |-> 60, text |-> WeTalkAboutCaches] >>

\* C6, witness: the scenario rendered, with the rows of its two buckets
C6_Witness ==
    /\ IsScenario
    /\ pc = "done"
    /\ Len(rows) = 2
    /\ rows[1].ts = <<"0","0",":","0","0">>
    /\ rows[2].ts = <<"0","0",":","3","0">>

C7_Safe ==
    /\ (segments = <<>> /\ (pc = "bins" \/ Returned)) =>
          /\ pc \in {"built", "SystemExit"}
          /\ blocks = <<>>
          /\ binlog = <<>>
          /\ bin0 = 0
    /\ pc \in {"pdf", "done"} => blocks # <<>>
    /\ (Returned /\ blocks = <<>>) => rows = <<>>

C7_Exits ==
    (pc = "built" /\ blocks = <<>>) => (pc' = "SystemExit" /\ rows' = <<>>)

\* C7: build_blocks on an empty list returns an empty list for any interval,
\* without evaluating the anchor and without an error; and whenever
\* build_blocks returns no blocks, main goes to the "No transcript text
\* found" exit and make_pdf is never called.
C7_EmptyResult == []C7_Safe /\ [][C7_Exits]_vars

\* C7, witness: segments with text, all of it cleaned away, end in the exit
C7_Witness ==
    /\ pc = "SystemExit"
    /\ interval > 0
    /\ binlog # <<>>
    /\ \E k \in DOMAIN segments : segments[k].text # <<>>

\* C8: with an interval <= 0 the pipeline ends in an error before any bucket
\* is built: build_blocks never returns a list of blocks, main never takes the
\* empty-result exit and never renders a PDF.  Stated for the inputs that have
\* segments; with none build_blocks returns before it reads the interval.
C8_NonPositiveRejected ==
    (interval <= 0 /\ json.hasSegments /\ json.segments # <<>>) => ~Returned

C10_Log ==
    \A n \in DOMAIN binlog :
        LET r == binlog[n]
        IN  /\ r.entered <= r.cursor
            /\ n > 1 => r.entered = binlog[n - 1].cursor
            /\ \A k \in (r.entered + 1)..r.cursor : segments[k].end <= r.b_start
            /\ \A m \in n..Len(binlog) :
                  \A k \in 1..r.cursor : k \notin Scanned(binlog[m])
            /\ \A k \in Scanned(r) : segments[k].start < r.b_end
            /\ r.j < Len(segments) => segments[r.j + 1].start >= r.b_end

C4_Idempotent == phase = "recleaned" => out2 = out

\* C5 as stated: "unlike this" and "I like pizza" are both returned unchanged.
C5_LikeUntouched ==
    (phase # "input" /\ text \in {UnlikeThis, ILikePizza}) => out = text

\* C5 as amended: "like" inside a longer word is kept ("unlike this" is
\* returned unchanged), and a "like" between single spaces is removed as a
\* filler ("I like pizza" becomes "I pizza").
C5_LikeStandaloneRemoved ==
    phase # "input" =>
        /\ text = UnlikeThis => out = UnlikeThis
        /\ text = ILikePizza => out = IPizza

\* C5, witness: "I like pizza" cleaned to "I pizza"
C5_Witness == phase = "cleaned" /\ text = ILikePizza /\ out = IPizza

(***************************************************************************)
(* Properties of fmt_time                                                  *)
(***************************************************************************)

IsDigit(c) == c \in Range(Digits)

DigitVal(c) == (CHOOSE k \in DOMAIN Digits : Digits[k] = c) - 1

\* the number written by the two digits at a and a + 1
TwoDigits(str, a) == 10 * DigitVal(str[a]) + DigitVal(str[a + 1])

\* the whole second nearest to t tenths, halves up
Nearest(t) ==
    CHOOSE v \in 0..((t \div 10) + 1) : 10 * v - 5 <= t /\ t < 10 * v + 5

\* C9: fmt_time of a non-negative number of seconds rounds to the nearest
\* second, halves up, and writes MM:SS below one hour and HH:MM:SS from one
\* hour on, zero padded, minutes and seconds in 0..59; 65 -> 01:05,
\* 3661 -> 01:01:01, 59.6 -> 01:00, 3599.5 -> 01:00:00.
C9_FmtTime ==
    phase = "formatted" =>
        LET s == Nearest(tenths)
        IN  /\ \A k \in DOMAIN ts : ts[k] = ":" \/ IsDigit(ts[k])
            /\ s < 3600 =>
                  /\ Len(ts) = 5
                  /\ ts[3] = ":"
                  /\ \A k \in {1, 2, 4, 5} : IsDigit(ts[k])
                  /\ TwoDigits(ts, 1) <= 59
                  /\ TwoDigits(ts, 4) <= 59
                  /\ 60 * TwoDigits(ts, 1) + TwoDigits(ts, 4) = s
            /\ s >= 3600 =>
                  /\ Len(ts) = 8
                  /\ ts[3] = ":" /\ ts[6] = ":"
                  /\ \A k \in {1, 2, 4, 5, 7, 8} : IsDigit(ts[k])
                  /\ TwoDigits(ts, 1) >= 1
                  /\ TwoDigits(ts, 4) <= 59
                  /\ TwoDigits(ts, 7) <= 59
                  /\ 3600 * TwoDigits(ts, 1) + 60 * TwoDigits(ts, 4)
                        + TwoDigits(ts, 7) = s
            /\ tenths = 650 => ts = <<"0","1",":","0","5">>
            /\ tenths = 36610 => ts = <<"0","1",":","0","1",":","0","1">>
            /\ tenths = 596 => ts = <<"0","1",":","0","0">>
            /\ tenths = 35995 => ts = <<"0","1",":","0","0",":","0","0">>

\* C9, witness: 3599.5 seconds, which rounds up into the hour
C9_Witness ==
    /\ phase = "formatted"
    /\ tenths = 35995
    /\ ts = <<"0","1",":","0","0",":","0","0">>

=============================================================================
